---- MODULE Spec2Model ----
(***************************************************************************)
(* A model of mdmp3lyricstotxt (src/src/main.rs): discovery of .mp3 files, *)
(* the lyric selection over an ID3v2 tag, the aggregation of the per-file  *)
(* sections into one document, and the sink that writes the document.      *)
(*                                                                         *)
(* A String of the program (a lyric text, a file name, the document) is    *)
(* the tuple of its characters, each a one-character string, so that       *)
(* concatenation, containment and Path::extension are computed on the      *)
(* characters.  Identifiers and descriptions of frames, which the program  *)
(* only compares, are TLA+ strings.                                        *)
(* Option<T> is [some |-> TRUE, v |-> x] / [some |-> FALSE]; Result<T> is  *)
(* [ok |-> TRUE, val |-> x] / [ok |-> FALSE, err |-> kind].                *)
(***************************************************************************)
EXTENDS Integers, Sequences, FiniteSets, TLC

VARIABLES
    sel_file,        \* selector: the file content handed to extract_lyrics_from_file
    sel_result,      \* selector: what the call returned (Pending before)
    fs,              \* the directory tree: path -> [kind, ok]
    input_path,      \* find_mp3_files / Args: the input path
    recursive,       \* find_mp3_files / Args: the recursion flag
    found,           \* what find_mp3_files returned (Pending before)
    disk,            \* path -> content of the file at that path, as read so far
    mp3_files,       \* extract_all_lyrics: the slice of paths
    include_names,   \* extract_all_lyrics: argument
    add_separator,   \* extract_all_lyrics: argument
    separator_text,  \* extract_all_lyrics: argument
    index,           \* extract_all_lyrics: number of loop iterations completed
    all_lyrics,      \* extract_all_lyrics: the accumulator String
    opened,          \* the paths handed to Tag::read_from_path so far, in order
    agg_result,      \* what extract_all_lyrics returned (Pending before)
    command,         \* Args.command: "extract" (no subcommand) or "list"
    pc,              \* the position of the running call
    dest,            \* the content of the output file (Missing when it does not exist)
    sink_calls,      \* the number of calls of write_to_file
    dest0,           \* the content of the output file when the run started
    stdout,          \* the lines printed by println!
    exit             \* what main returned (Pending before)

selVars == <<sel_file, sel_result>>
findVars == <<fs, input_path, recursive, found>>
aggVars == <<disk, mp3_files, include_names, add_separator, separator_text,
             index, all_lyrics, opened, agg_result>>
runVars == <<command, dest, dest0, sink_calls, stdout, exit>>
vars == <<selVars, findVars, aggVars, runVars, pc>>

-----------------------------------------------------------------------------
(* Bounds of the model.                                                    *)

MaxFrames == 3
MaxFiles == 3

-----------------------------------------------------------------------------
(* Option and Result.                                                      *)

Some(x) == [some |-> TRUE, v |-> x]
None == [some |-> FALSE]
Ok(x) == [ok |-> TRUE, val |-> x]
Err(kind) == [ok |-> FALSE, err |-> kind]
Pending == [pending |-> TRUE]

SeqsUpTo(S, n) == UNION {[1..k -> S] : k \in 0..n}

-----------------------------------------------------------------------------
(* The ID3v2 tag as the selector sees it: a sequence of frames, each with  *)
(* an identifier and a typed content (id3::Content).  kind is the variant  *)
(* of the content: Lyrics (USLT), Comment (COMM), ExtendedText (TXXX),     *)
(* Text (a plain text frame) or Unknown (no textual view).  Which content   *)
(* a frame of a given identifier has is decided by the tag parser, which   *)
(* is not part of the program: under the identifiers the program looks up  *)
(* the model admits a frame with a textual view and one without.           *)

hello == <<"h", "e", "l", "l", "o">>
world == <<"w", "o", "r", "l", "d">>
empty == <<>>
Texts == {empty, hello, world}

Uslt(d, t) == [id |-> "USLT", kind |-> "Lyrics", lang |-> "eng", description |-> d, text |-> t]
Comm(d, t) == [id |-> "COMM", kind |-> "Comment", lang |-> "eng", description |-> d, text |-> t]
Txxx(d, t) == [id |-> "TXXX", kind |-> "ExtendedText", lang |-> "", description |-> d, text |-> t]
TextFrame(i, t) == [id |-> i, kind |-> "Text", lang |-> "", description |-> "", text |-> t]
UnknownFrame(i) == [id |-> i, kind |-> "Unknown", lang |-> "", description |-> "", text |-> empty]

LyricsFrames == {Uslt(d, t) : d \in {"", "LYRICS"}, t \in Texts}
CommentFrames == {Comm(d, t) : d \in {"LYRICS", "lyrics"}, t \in {empty, world}}
ExtendedTextFrames == {Txxx(d, t) : d \in {"LYRICS", "Lyrics"}, t \in {empty, hello}}
TextFrames ==
    {TextFrame(i, t) : i \in {"LYRICS", "SYLT", "LYRW", "UNSYNCEDLYRICS"}, t \in {empty, world}}
    \cup {TextFrame("TIT2", hello)}
UnknownFrames == {UnknownFrame(i) : i \in {"LYRICS", "SYLT", "LYRW", "UNSYNCEDLYRICS"}}
Frames == LyricsFrames \cup CommentFrames \cup ExtendedTextFrames
            \cup TextFrames \cup UnknownFrames

Tags == SeqsUpTo(Frames, MaxFrames)

\* What is stored at a path: a file whose ID3 tag parses, or one whose tag does not.
Readable(tag) == [readable |-> TRUE, tag |-> tag]
Unreadable == [readable |-> FALSE]

-----------------------------------------------------------------------------
(* extract_lyrics_from_file and the accessors of the tag it uses.          *)

\* Tag::read_from_path(file_path).with_context(..)
read_from_path(content) ==
    IF content.readable THEN Ok(content.tag) ELSE Err("TagReadError")

OfKind(tag, k) == SelectSeq(tag, LAMBDA f : f.kind = k)
\* tag.lyrics(), tag.comments(), tag.extended_texts(): the frames of that content, in tag order
lyrics(tag) == OfKind(tag, "Lyrics")
comments(tag) == OfKind(tag, "Comment")
extended_texts(tag) == OfKind(tag, "ExtendedText")

\* Iterator::next on a fresh iterator
next(s) == IF s = <<>> THEN None ELSE Some(Head(s))

\* Iterator::find(|x| x.description == d)
find(s, d) == next(SelectSeq(s, LAMBDA f : f.description = d))

\* TagLike::get(&tag, frame_id): the first frame with that identifier
get(tag, frame_id) == next(SelectSeq(tag, LAMBDA f : f.id = frame_id))

\* frame.content().text(): the text of a Content::Text, None for any other content
text(frame) == IF frame.kind = "Text" THEN Some(frame.text) ELSE None

frame_ids == <<"LYRICS", "SYLT", "LYRW", "UNSYNCEDLYRICS">>

\* lookup_frame_ids giving up at the first identifier whose frame has no text
RECURSIVE lookup_short_circuit(_, _)
lookup_short_circuit(tag, k) ==
    IF k > Len(frame_ids) THEN None
    ELSE LET frame == get(tag, frame_ids[k]) IN
         IF frame.some THEN text(frame.v)
         ELSE lookup_short_circuit(tag, k + 1)

\* the for loop over the common lyric frame identifiers, from position k on
RECURSIVE lookup_frame_ids(_, _)
lookup_frame_ids(tag, k) ==
    IF k > Len(frame_ids) THEN None
    ELSE LET frame == get(tag, frame_ids[k]) IN
         IF frame.some /\ text(frame.v).some
         THEN text(frame.v)
         ELSE lookup_frame_ids(tag, k + 1)

\* select with the comment frames probed before the unsynchronized lyrics
select_comments_first(tag) ==
    IF find(comments(tag), "LYRICS").some
    THEN Some(find(comments(tag), "LYRICS").v.text)
    ELSE IF next(lyrics(tag)).some
    THEN Some(next(lyrics(tag)).v.text)
    ELSE IF find(extended_texts(tag), "LYRICS").some
    THEN Some(find(extended_texts(tag), "LYRICS").v.text)
    ELSE lookup_frame_ids(tag, 1)

select(tag) ==
    IF next(lyrics(tag)).some
    THEN Some(next(lyrics(tag)).v.text)
    ELSE IF find(comments(tag), "LYRICS").some
    THEN Some(find(comments(tag), "LYRICS").v.text)
    ELSE IF find(extended_texts(tag), "LYRICS").some
    THEN Some(find(extended_texts(tag), "LYRICS").v.text)
    ELSE lookup_frame_ids(tag, 1)

extract_lyrics_from_file(content) ==
    LET tag == read_from_path(content) IN
    IF ~tag.ok THEN tag ELSE Ok(select(tag.val))

-----------------------------------------------------------------------------
(* The file system as find_mp3_files sees it.  A path is the sequence of   *)
(* its components below the working directory, a component a tuple of      *)
(* characters.  fs maps every existing path to its kind ("file" or "dir")  *)
(* and to ok: whether a directory walk can read it (for a directory: list  *)
(* its entries; for a file: read its directory entry).                     *)

MaxEntries == 4

a_mp3 == <<"a", ".", "m", "p", "3">>
b_mp3 == <<"b", ".", "m", "p", "3">>
c_MP3 == <<"c", ".", "M", "P", "3">>
d_txt == <<"d", ".", "t", "x", "t">>
dot_mp3 == <<".", "m", "p", "3">>
sub == <<"s">>
Names == {a_mp3, b_mp3, c_MP3, d_txt, dot_mp3, sub}

\* the entries the directory trees of the model are built from: [name, kind, ok]
Entry(name, kind, ok) == [name |-> name, kind |-> kind, ok |-> ok]
Entries ==
    {Entry(a_mp3, "file", TRUE), Entry(a_mp3, "file", FALSE), Entry(a_mp3, "dir", TRUE),
     Entry(b_mp3, "file", TRUE), Entry(c_MP3, "file", TRUE), Entry(d_txt, "file", TRUE),
     Entry(dot_mp3, "file", TRUE), Entry(sub, "dir", TRUE), Entry(sub, "dir", FALSE)}

mp3 == <<"m", "p", "3">>

Parent(path) == SubSeq(path, 1, Len(path) - 1)

\* Path::extension on the last component: None without a dot or when the only
\* dot is the leading one, else what follows the last dot
extension(path) ==
    LET name == path[Len(path)]
        dots == {i \in 1..Len(name) : name[i] = "."}
        last == CHOOSE i \in dots : \A j \in dots : j <= i
    IN  IF dots = {} \/ last = 1 THEN None
        ELSE Some(SubSeq(name, last + 1, Len(name)))

is_file(tree, path) == path \in DOMAIN tree /\ tree[path].kind = "file"
is_dir(tree, path) == path \in DOMAIN tree /\ tree[path].kind = "dir"

\* the entries of a directory
Children(tree, dir) == {p \in DOMAIN tree : Len(p) = Len(dir) + 1 /\ Parent(p) = dir}

\* the orders in which the operating system may list the entries of the
\* directories below dir: a ranking of the paths below it (any order of any
\* directory's entries)
ReadDirOrders(tree, dir) ==
    LET below == {p \in DOMAIN tree : Len(p) > Len(dir) /\ SubSeq(p, 1, Len(dir)) = dir}
    IN  {r \in [below -> 1..Cardinality(below)] : \A p, q \in below : r[p] = r[q] => p = q}

RECURSIVE Listing(_, _)
Listing(paths, order) ==
    IF paths = {} THEN <<>>
    ELSE LET first == CHOOSE p \in paths :
                        \A q \in paths : order[p] <= order[q]
         IN  <<first>> \o Listing(paths \ {first}, order)

\* WalkDir::new(path)[.max_depth(max_depth)].into_iter(): the items of the walk
\* below (and including) the entry at `path`, each Ok(entry) or Err.  max_depth
\* is 1 for the non-recursive walk and unlimited (-1) for the recursive one.
RECURSIVE walk(_, _, _, _, _)
WalkAll(tree, paths, depth, max_depth, order) ==
    LET RECURSIVE Each(_)
        Each(s) == IF s = <<>> THEN <<>>
                   ELSE walk(tree, Head(s), depth, max_depth, order) \o Each(Tail(s))
    IN  Each(Listing(paths, order))
walk(tree, path, depth, max_depth, order) ==
    IF tree[path].kind = "file"
    THEN <<IF tree[path].ok THEN Ok(path) ELSE Err("walkdir")>>
    ELSE <<Ok(path)>> \o
         (IF max_depth # -1 /\ depth >= max_depth THEN <<>>
          ELSE IF ~tree[path].ok THEN <<Err("walkdir")>>
          ELSE WalkAll(tree, Children(tree, path), depth + 1, max_depth, order))

\* walker.filter_map(|e| e.ok())
filter_map_ok(items) ==
    LET oks == SelectSeq(items, LAMBDA e : e.ok)
    IN  [i \in 1..Len(oks) |-> oks[i].val]

\* find_mp3_files without the is_file test on the entries of the walk
find_mp3_files_any_entry(tree, path, rec, order) ==
    IF is_file(tree, path)
    THEN IF extension(path) = Some(mp3)
         THEN Ok(<<path>>)
         ELSE Err("NotAnMp3")
    ELSE IF is_dir(tree, path)
    THEN LET walker == walk(tree, path, 0, IF rec THEN -1 ELSE 1, order)
         IN  Ok(SelectSeq(filter_map_ok(walker), LAMBDA p : extension(p) = Some(mp3)))
    ELSE Err("PathNotFound")

\* find_mp3_files accepting a named file whatever its extension
find_mp3_files_any_file(tree, path, rec, order) ==
    IF is_file(tree, path)
    THEN Ok(<<path>>)
    ELSE IF is_dir(tree, path)
    THEN LET walker == walk(tree, path, 0, IF rec THEN -1 ELSE 1, order)
         IN  Ok(SelectSeq(filter_map_ok(walker),
                          LAMBDA p : is_file(tree, p) /\ extension(p) = Some(mp3)))
    ELSE Err("PathNotFound")

\* find_mp3_files(input_path, recursive)
find_mp3_files(tree, path, rec, order) ==
    IF is_file(tree, path)
    THEN IF extension(path) = Some(mp3)
         THEN Ok(<<path>>)
         ELSE Err("NotAnMp3")
    ELSE IF is_dir(tree, path)
    THEN LET walker == walk(tree, path, 0, IF rec THEN -1 ELSE 1, order)
         IN  Ok(SelectSeq(filter_map_ok(walker),
                          LAMBDA p : is_file(tree, p) /\ extension(p) = Some(mp3)))
    ELSE Err("PathNotFound")

-----------------------------------------------------------------------------
(* extract_all_lyrics: the document is a String, here the tuple of its     *)
(* characters.                                                             *)

newline == <<"\n">>
dashes == <<"-", "-", "-">>
file_prefix == <<"F", "i", "l", "e", ":", " ">>
no_lyrics_found ==
    <<"[", "N", "o", " ", "l", "y", "r", "i", "c", "s", " ",
      "f", "o", "u", "n", "d", "]", "\n">>
failed_to_extract ==
    <<"[", "F", "a", "i", "l", "e", "d", " ", "t", "o", " ",
      "e", "x", "t", "r", "a", "c", "t", " ",
      "l", "y", "r", "i", "c", "s", "]", "\n">>

\* file_path.display(): the components joined by the path separator
RECURSIVE display(_)
display(path) ==
    IF Len(path) = 0 THEN <<>>
    ELSE IF Len(path) = 1 THEN path[1]
    ELSE path[1] \o <<"/">> \o display(Tail(path))

\* separator without the index > 0 test
separator_every_file(i, add_sep, sep_text) ==
    IF add_sep THEN newline \o sep_text \o newline ELSE <<>>

\* if index > 0 && add_separator { push_str(&format!("\n{}\n", separator_text)) }
separator(i, add_sep, sep_text) ==
    IF i > 0 /\ add_sep THEN newline \o sep_text \o newline ELSE <<>>

\* if include_names { push_str(&format!("File: {}\n\n", file_path.display())) }
header(names, file_path) ==
    IF names THEN file_prefix \o display(file_path) \o newline \o newline ELSE <<>>

\* section with the two placeholders exchanged
section_swapped(result, names) ==
    IF result.ok /\ result.val.some THEN result.val.v \o newline
    ELSE IF result.ok THEN (IF names THEN failed_to_extract ELSE <<>>)
    ELSE (IF names THEN no_lyrics_found ELSE <<>>)

\* section taking an empty text for no lyrics
section_empty_is_absent(result, names) ==
    IF result.ok /\ result.val.some /\ result.val.v # <<>> THEN result.val.v \o newline
    ELSE IF result.ok THEN (IF names THEN no_lyrics_found ELSE <<>>)
    ELSE (IF names THEN failed_to_extract ELSE <<>>)

\* the three arms of the match on extract_lyrics_from_file(file_path)
section(result, names) ==
    IF result.ok /\ result.val.some THEN result.val.v \o newline
    ELSE IF result.ok THEN (IF names THEN no_lyrics_found ELSE <<>>)
    ELSE (IF names THEN failed_to_extract ELSE <<>>)

\* AggStep with extract_lyrics_from_file(file_path)? in place of the match: the
\* first file whose tag cannot be read ends the call with its error
AggStepPropagating(contents) ==
    /\ pc = "aggregate"
    /\ index < Len(mp3_files)
    /\ LET file_path == mp3_files[index + 1] IN
       \E content \in (IF file_path \in DOMAIN disk THEN {disk[file_path]} ELSE contents) :
          LET result == extract_lyrics_from_file(content) IN
          /\ disk' = (file_path :> content) @@ disk
          /\ opened' = Append(opened, file_path)
          /\ all_lyrics' = all_lyrics
                \o separator(index, add_separator, separator_text)
                \o header(include_names, file_path)
                \o (IF result.ok THEN section(result, include_names) ELSE <<>>)
          /\ agg_result' = IF result.ok THEN agg_result ELSE result
          /\ pc' = IF result.ok THEN pc ELSE "returned"
    /\ index' = index + 1
    /\ UNCHANGED <<mp3_files, include_names, add_separator, separator_text,
                   selVars, findVars, runVars>>

\* one iteration of the for loop; the file is read when the iteration opens it,
\* and a path read before holds what it held then
AggStep(contents) ==
    /\ pc = "aggregate"
    /\ index < Len(mp3_files)
    /\ LET file_path == mp3_files[index + 1] IN
       \E content \in (IF file_path \in DOMAIN disk THEN {disk[file_path]} ELSE contents) :
          /\ disk' = (file_path :> content) @@ disk
          /\ opened' = Append(opened, file_path)
          /\ all_lyrics' = all_lyrics
                \o separator(index, add_separator, separator_text)
                \o header(include_names, file_path)
                \o section(extract_lyrics_from_file(content), include_names)
    /\ index' = index + 1
    /\ UNCHANGED <<mp3_files, include_names, add_separator, separator_text, agg_result,
                   pc, selVars, findVars, runVars>>

\* Ok(all_lyrics) once the loop has run over every file
AggReturn ==
    /\ pc = "aggregate"
    /\ index = Len(mp3_files)
    /\ agg_result' = Ok(all_lyrics)
    /\ pc' = "returned"
    /\ UNCHANGED <<disk, mp3_files, include_names, add_separator, separator_text,
                   index, all_lyrics, opened, selVars, findVars, runVars>>

-----------------------------------------------------------------------------
(* Idle values of the variables a specification does not use.              *)

\* the output file: absent, or holding bytes
Missing == [exists |-> FALSE]
Existing(bytes) == [exists |-> TRUE, bytes |-> bytes]

SelIdle == sel_file = Unreadable /\ sel_result = Pending
FindIdle == fs = <<>> /\ input_path = <<>> /\ recursive = FALSE /\ found = Pending
AggIdle ==
    /\ disk = <<>>
    /\ mp3_files = <<>>
    /\ include_names = FALSE
    /\ add_separator = FALSE
    /\ separator_text = <<>>
    /\ index = 0
    /\ all_lyrics = <<>>
    /\ opened = <<>>
    /\ agg_result = Pending
RunIdle ==
    /\ command = "extract"
    /\ dest = Missing
    /\ dest0 = Missing
    /\ sink_calls = 0
    /\ stdout = <<>>
    /\ exit = Pending

-----------------------------------------------------------------------------
(* The selector specification: one call of extract_lyrics_from_file on any *)
(* file content of the bounded universe.                                   *)

SelInit ==
    /\ sel_file \in {Unreadable} \cup {Readable(t) : t \in Tags}
    /\ sel_result = Pending
    /\ pc = "select"
    /\ FindIdle /\ AggIdle /\ RunIdle

SelCall ==
    /\ pc = "select"
    /\ sel_result' = extract_lyrics_from_file(sel_file)
    /\ pc' = "returned"
    /\ UNCHANGED <<sel_file, findVars, aggVars, runVars>>

SelNext == SelCall

SelSpec == SelInit /\ [][SelNext]_vars

-----------------------------------------------------------------------------
(* The discovery specification: a directory tree is built entry by entry   *)
(* (as the tests do with File::create and fs::create_dir), then            *)
(* find_mp3_files is called once on any path of it.                        *)

FindInit ==
    /\ fs = <<>>
    /\ input_path = <<>>
    /\ recursive = FALSE
    /\ found = Pending
    /\ pc = "setup"
    /\ SelIdle /\ AggIdle /\ RunIdle

\* File::create / fs::create_dir of the tests, with entries a walk cannot read
CreateEntry ==
    /\ pc = "setup"
    /\ Cardinality(DOMAIN fs) < MaxEntries
    /\ \E dir \in {<<>>} \cup {p \in DOMAIN fs : fs[p].kind = "dir"}, e \in Entries :
          LET path == Append(dir, e.name) IN
          /\ path \notin DOMAIN fs
          /\ fs' = (path :> [kind |-> e.kind, ok |-> e.ok]) @@ fs
    /\ UNCHANGED <<input_path, recursive, found, pc, selVars, aggVars, runVars>>

FindCall ==
    /\ pc = "setup"
    /\ \E path \in DOMAIN fs \cup {<<n>> : n \in Names}, rec \in BOOLEAN :
       \E order \in ReadDirOrders(fs, path) :
          /\ input_path' = path
          /\ recursive' = rec
          /\ found' = find_mp3_files(fs, path, rec, order)
    /\ pc' = "returned"
    /\ UNCHANGED <<fs, selVars, aggVars, runVars>>

FindNext == CreateEntry \/ FindCall

FindSpec == FindInit /\ [][FindNext]_vars

-----------------------------------------------------------------------------
(* The aggregator specification: one call of extract_all_lyrics on any     *)
(* list of at most MaxFiles paths, with any flags, over files of any of    *)
(* the contents below.                                                     *)

PathPool == {<<a_mp3>>, <<b_mp3>>, <<sub, a_mp3>>}

SeparatorTexts == {dashes, empty}

\* an unreadable file, a tag without lyrics, lyrics at rank 1 and at rank 2, and
\* for every rank a tag whose selected frame is empty while a later rank is not
AggContents ==
    {Unreadable,
     Readable(<<>>),
     Readable(<<Uslt("", hello)>>),
     Readable(<<Comm("LYRICS", world)>>),
     Readable(<<Uslt("", empty), Comm("LYRICS", world)>>),
     Readable(<<Comm("LYRICS", empty), Txxx("LYRICS", hello)>>),
     Readable(<<Txxx("LYRICS", empty), TextFrame("SYLT", world)>>),
     Readable(<<TextFrame("SYLT", empty), TextFrame("LYRW", world)>>)}

AggInit ==
    /\ mp3_files \in SeqsUpTo(PathPool, MaxFiles)
    /\ include_names \in BOOLEAN
    /\ add_separator \in BOOLEAN
    /\ separator_text \in SeparatorTexts
    /\ disk = <<>>
    /\ index = 0
    /\ all_lyrics = <<>>
    /\ opened = <<>>
    /\ agg_result = Pending
    /\ pc = "aggregate"
    /\ SelIdle /\ FindIdle /\ RunIdle

AggNext == AggStep(AggContents) \/ AggReturn

AggSpec == AggInit /\ [][AggNext]_vars

-----------------------------------------------------------------------------
(* The program: main on a fixed directory tree, with any command, input    *)
(* path and flags, and an output file that exists or not.                  *)

e_dir == <<"e">>
old == <<"o", "l", "d">>

File == [kind |-> "file", ok |-> TRUE]
Dir == [kind |-> "dir", ok |-> TRUE]

\* a.mp3, d.txt, s/{a.mp3, b.mp3, d.txt, s/{a.mp3}}, e/{d.txt}
RunPaths ==
    <<(<<a_mp3>>), (<<d_txt>>), (<<sub>>), (<<sub, a_mp3>>), (<<sub, b_mp3>>),
      (<<sub, d_txt>>), (<<sub, sub>>), (<<sub, sub, a_mp3>>), (<<e_dir>>),
      (<<e_dir, d_txt>>)>>
RunTree ==
    [p \in {RunPaths[i] : i \in 1..Len(RunPaths)} |->
        IF p \in {<<sub>>, <<sub, sub>>, <<e_dir>>} THEN Dir ELSE File]

\* the input paths: an mp3 file, another file, a directory with mp3 files below
\* it, a directory without any, and a path that does not exist
RunInputs == {<<a_mp3>>, <<d_txt>>, <<sub>>, <<e_dir>>, <<b_mp3>>}

\* two opposite listing orders of the directories
RunOrders ==
    {[p \in DOMAIN RunTree |-> CHOOSE i \in 1..Len(RunPaths) : RunPaths[i] = p],
     [p \in DOMAIN RunTree |-> Len(RunPaths) + 1
                                 - (CHOOSE i \in 1..Len(RunPaths) : RunPaths[i] = p)]}

RunContents == {Unreadable, Readable(<<>>), Readable(<<Uslt("", hello)>>)}

Init ==
    /\ fs = RunTree
    /\ command \in {"extract", "list"}
    /\ input_path \in RunInputs
    /\ recursive \in BOOLEAN
    /\ include_names \in BOOLEAN
    /\ add_separator \in BOOLEAN
    /\ separator_text = dashes
    /\ dest0 \in {Missing, Existing(old)}
    /\ dest = dest0
    /\ found = Pending
    /\ disk = <<>>
    /\ mp3_files = <<>>
    /\ index = 0
    /\ all_lyrics = <<>>
    /\ opened = <<>>
    /\ agg_result = Pending
    /\ sink_calls = 0
    /\ stdout = <<>>
    /\ exit = Pending
    /\ pc = "main"
    /\ SelIdle

\* Commands::List: find_mp3_files(..)?, println! of every path, return Ok(())
MainList ==
    /\ pc = "main"
    /\ command = "list"
    /\ \E order \in RunOrders :
          LET r == find_mp3_files(fs, input_path, recursive, order) IN
          /\ found' = r
          /\ stdout' = IF r.ok THEN [i \in 1..Len(r.val) |-> display(r.val[i])] ELSE stdout
          /\ exit' = IF r.ok THEN Ok("unit") ELSE r
    /\ pc' = "done"
    /\ UNCHANGED <<fs, input_path, recursive, command, dest, dest0, sink_calls,
                   selVars, aggVars>>

\* after_discovery without the is_empty test
after_discovery_unchecked(r) ==
    IF ~r.ok THEN [pc |-> "done", exit |-> r]
    ELSE [pc |-> "aggregate", exit |-> Pending]

\* the default mode after find_mp3_files(..): the ? on its error, the bail! on
\* an empty result, else on to extract_all_lyrics
after_discovery(r) ==
    IF ~r.ok THEN [pc |-> "done", exit |-> r]
    ELSE IF r.val = <<>> THEN [pc |-> "done", exit |-> Err("NoFilesFound")]
    ELSE [pc |-> "aggregate", exit |-> Pending]

MainDiscover ==
    /\ pc = "main"
    /\ command = "extract"
    /\ \E order \in RunOrders :
          LET r == find_mp3_files(fs, input_path, recursive, order) IN
          /\ found' = r
          /\ pc' = after_discovery(r).pc
          /\ exit' = after_discovery(r).exit
          /\ mp3_files' = IF after_discovery(r).pc = "aggregate" THEN r.val ELSE mp3_files
    /\ UNCHANGED <<fs, input_path, recursive, command, dest, dest0, sink_calls, stdout,
                   selVars, disk, include_names, add_separator, separator_text,
                   index, all_lyrics, opened, agg_result>>

\* the file opened without truncation, for appending
File_open_append(file) == IF file.exists THEN file ELSE Existing(<<>>)

\* File::create(output_path): what the file holds once it is created or truncated
File_create(file) == Existing(<<>>)

\* write_to_file, first half: File::create(..).with_context(..)?
SinkCreate ==
    /\ pc = "returned"
    /\ agg_result.ok
    /\ sink_calls' = sink_calls + 1
    /\ \E created \in BOOLEAN :
          IF created
          THEN /\ dest' = File_create(dest)
               /\ pc' = "write"
               /\ exit' = exit
          ELSE /\ dest' = dest
               /\ pc' = "done"
               /\ exit' = Err("CreateFailed")
    /\ UNCHANGED <<command, dest0, stdout, selVars, findVars, aggVars>>

\* write_to_file, second half: file.write_all(content.as_bytes()).with_context(..)?,
\* which has written the first k bytes when it returns: all of them, or fewer
\* and an error
SinkWrite ==
    /\ pc = "write"
    /\ LET content == agg_result.val IN
       \E k \in 0..Len(content) :
          /\ dest' = Existing(dest.bytes \o SubSeq(content, 1, k))
          /\ exit' = IF k = Len(content) THEN Ok("unit") ELSE Err("WriteFailed")
    /\ pc' = "done"
    /\ UNCHANGED <<command, dest0, sink_calls, stdout, selVars, findVars, aggVars>>

Next ==
    \/ MainList
    \/ MainDiscover
    \/ AggStep(RunContents)
    \/ AggReturn
    \/ SinkCreate
    \/ SinkWrite

Spec == Init /\ [][Next]_vars

-----------------------------------------------------------------------------
(* The statements checked, and what they are stated with.                  *)

\* s occurs in doc
Contains(doc, s) ==
    \E i \in 0..(Len(doc) - Len(s)) : SubSeq(doc, i + 1, i + Len(s)) = s

\* the number of places of doc where s occurs
Occurrences(doc, s) ==
    Cardinality({i \in 0..(Len(doc) - Len(s)) : SubSeq(doc, i + 1, i + Len(s)) = s})

IsPrefix(s, doc) == Len(s) <= Len(doc) /\ SubSeq(doc, 1, Len(s)) = s

Least(S) == CHOOSE i \in S : \A j \in S : i <= j

\* The precedence table of the selector, stated on the frames of the tag.
LyricIds == <<"LYRICS", "SYLT", "LYRW", "UNSYNCEDLYRICS">>

\* the frame a lookup by identifier yields: the first of the tag with that identifier
Lookup(tag, id) == {i \in DOMAIN tag : tag[i].id = id /\ \A j \in 1..(i - 1) : tag[j].id # id}

\* the positions, in LyricIds, of the identifiers whose frame is present with a textual view
TextualIds(tag) ==
    {k \in DOMAIN LyricIds : \E i \in Lookup(tag, LyricIds[k]) : tag[i].kind = "Text"}

RankFrames(tag, rank) ==
    CASE rank = 1 -> {i \in DOMAIN tag : tag[i].id = "USLT"}
      [] rank = 2 -> {i \in DOMAIN tag : tag[i].id = "COMM" /\ tag[i].description = "LYRICS"}
      [] rank = 3 -> {i \in DOMAIN tag : tag[i].id = "TXXX" /\ tag[i].description = "LYRICS"}
      [] rank = 4 -> IF TextualIds(tag) = {} THEN {}
                     ELSE Lookup(tag, LyricIds[Least(TextualIds(tag))])

Candidate(tag, rank) ==
    IF RankFrames(tag, rank) = {} THEN None
    ELSE Some(tag[Least(RankFrames(tag, rank))].text)

Selected(tag) ==
    LET producing == {rank \in 1..4 : Candidate(tag, rank).some}
    IN  IF producing = {} THEN None ELSE Candidate(tag, Least(producing))

\* C1: for every tag that can be read the selector returns the candidate of the
\* lowest rank that produces one (rank 1 the first unsynchronized-lyric frame,
\* rank 2 the first comment described LYRICS, rank 3 the first user-defined text
\* described LYRICS, rank 4 the first identifier of LYRICS, SYLT, LYRW,
\* UNSYNCEDLYRICS whose frame has a textual view), and Absent exactly when no
\* rank produces one.
C1_SelectorPrecedence ==
    (pc = "returned" /\ sel_file.readable) => sel_result = Ok(Selected(sel_file.tag))

\* a LYRICS comment with text world ahead of an unsynchronized-lyric frame with
\* text hello: Found(hello)
C1_Witness ==
    /\ pc = "returned"
    /\ sel_file = Readable(<<Comm("LYRICS", world), Uslt("", hello)>>)
    /\ sel_result = Ok(Some(hello))

\* C3: in the lookup by identifier a frame that is present without a textual
\* view is skipped and the search goes on with the next identifier: when ranks 1
\* to 3 produce nothing, the result is the text of the first identifier whose
\* frame has a textual view, and Absent only if there is none.
C3_NoShortCircuit ==
    (/\ pc = "returned"
     /\ sel_file.readable
     /\ \A rank \in 1..3 : RankFrames(sel_file.tag, rank) = {})
    => LET tag == sel_file.tag
           textual == TextualIds(tag)
       IN  /\ sel_result.ok
           /\ sel_result.val = None <=> textual = {}
           /\ \A k \in textual :
                (\A j \in 1..(k - 1) : j \notin textual)
                => \E i \in Lookup(tag, LyricIds[k]) : sel_result.val = Some(tag[i].text)

\* a LYRICS and a SYLT frame without a textual view ahead of a LYRW text frame
C3_Witness ==
    /\ pc = "returned"
    /\ sel_file = Readable(<<UnknownFrame("LYRICS"), UnknownFrame("SYLT"),
                             TextFrame("LYRW", world)>>)
    /\ sel_result = Ok(Some(world))

\* The sections of the document, stated on the outcome of every file.
Outcome(i) == extract_lyrics_from_file(disk[mp3_files[i]])
IsFound(outcome) == outcome.ok /\ outcome.val.some
IsAbsent(outcome) == outcome.ok /\ ~outcome.val.some
IsTagReadError(outcome) == ~outcome.ok

Delimiter == IF add_separator THEN <<"\n">> \o separator_text \o <<"\n">> ELSE <<>>

HeaderOf(path) ==
    IF include_names THEN file_prefix \o display(path) \o <<"\n", "\n">> ELSE <<>>

BodyOf(outcome) ==
    CASE IsFound(outcome) -> outcome.val.v \o <<"\n">>
      [] IsAbsent(outcome) /\ include_names -> no_lyrics_found
      [] IsTagReadError(outcome) /\ include_names -> failed_to_extract
      [] OTHER -> <<>>

SectionOf(i) == HeaderOf(mp3_files[i]) \o BodyOf(Outcome(i))

\* the first n sections, the delimiter between every two of them
RECURSIVE Joined(_)
Joined(n) ==
    IF n = 0 THEN <<>>
    ELSE IF n = 1 THEN SectionOf(1)
    ELSE Joined(n - 1) \o Delimiter \o SectionOf(n)

Processing == index' = index + 1

\* C2: a file whose selected frame (at rank 1, 2, 3 or 4) carries an empty text
\* is Found with the empty string: its section is the header and a single "\n",
\* neither the text of a later rank nor a placeholder, and the section of a file
\* without lyrics is never that.
C2_EmptyIsFound ==
    [][Processing =>
        LET path == mp3_files[index']
            content == disk'[path]
            as_found == all_lyrics \o (IF index > 0 THEN Delimiter ELSE <<>>)
                            \o HeaderOf(path) \o <<"\n">>
        IN  /\ (content.readable /\ Selected(content.tag) = Some(empty))
                => all_lyrics' = as_found
            /\ (content.readable /\ Selected(content.tag) = None)
                => all_lyrics' # as_found]_vars

\* an empty SYLT text ahead of a LYRW text: the document is "\n"
C2_Witness ==
    /\ index = 1
    /\ disk[mp3_files[1]] = Readable(<<TextFrame("SYLT", empty), TextFrame("LYRW", world)>>)
    /\ ~include_names
    /\ all_lyrics = <<"\n">>

\* C4: extract_all_lyrics never aborts mid-batch: whatever the outcomes, it opens
\* every file of the list once, in order, returns Ok with the document, and the
\* document contains text + "\n" for every file that is Found.
C4_NeverAborts ==
    /\ opened = SubSeq(mp3_files, 1, index)
    /\ pc = "aggregate" => (agg_result = Pending /\ ENABLED AggNext)
    /\ pc = "returned" =>
        /\ agg_result = Ok(all_lyrics)
        /\ index = Len(mp3_files)
        /\ opened = mp3_files
        /\ \A i \in 1..Len(mp3_files) :
              IsFound(Outcome(i)) => Contains(all_lyrics, Outcome(i).val.v \o <<"\n">>)

\* three files, the first and the last with an unreadable tag, the second Found
C4_Witness ==
    /\ pc = "returned"
    /\ Len(mp3_files) = 3
    /\ IsTagReadError(Outcome(1))
    /\ Outcome(2) = Ok(Some(hello))
    /\ IsTagReadError(Outcome(3))
    /\ Contains(all_lyrics, hello \o <<"\n">>)

\* C5: the sections are in the order of the list, with add_separator the
\* delimiter "\n" + separator_text + "\n" stands between every two adjacent files
\* and not before the first (n - 1 delimiters for n files), without it there is
\* none.
C5_OrderAndDelimiters ==
    /\ all_lyrics = Joined(index)
    /\ separator_text = dashes =>
          Occurrences(all_lyrics, <<"\n">> \o dashes \o <<"\n">>)
            = (IF add_separator /\ index > 0 THEN index - 1 ELSE 0)

\* three files with the delimiter, the one in the middle contributing no text
C5_Witness ==
    /\ pc = "returned"
    /\ Len(mp3_files) = 3
    /\ add_separator /\ separator_text = dashes /\ ~include_names
    /\ Outcome(1) = Ok(Some(hello))
    /\ IsAbsent(Outcome(2))
    /\ Outcome(3) = Ok(Some(world))
    /\ all_lyrics = hello \o <<"\n", "\n">> \o dashes \o <<"\n", "\n">> \o dashes
                        \o <<"\n">> \o world \o <<"\n">>

\* what one iteration appends
C6_Step ==
    Processing =>
        all_lyrics' = all_lyrics \o (IF index > 0 THEN Delimiter ELSE <<>>)
                        \o HeaderOf(mp3_files[index'])
                        \o BodyOf(extract_lyrics_from_file(disk'[mp3_files[index']]))

\* the two documents the claim names
C6_Examples ==
    (pc = "returned" /\ ~include_names /\ ~add_separator) =>
        /\ (\A i \in 1..Len(mp3_files) : IsTagReadError(Outcome(i))) => all_lyrics = <<>>
        /\ (/\ Len(mp3_files) = 2
            /\ Outcome(1) = Ok(Some(hello))
            /\ Outcome(2) = Ok(Some(world)))
           => all_lyrics = hello \o <<"\n">> \o world \o <<"\n">>

\* C6: what one file appends is the header "File: " + path + "\n\n" iff
\* include_names, then text + "\n" (Found), "[No lyrics found]\n" (Absent, with
\* include_names), "[Failed to extract lyrics]\n" (TagReadError, with
\* include_names) or nothing; so only unreadable files and no flags give the
\* empty document, and hello and world with no flags give "hello\nworld\n".
C6_Sections == [][C6_Step]_vars /\ []C6_Examples

\* a file without lyrics, with include_names
C6_Witness ==
    /\ index = 1
    /\ include_names
    /\ mp3_files[1] = <<sub, a_mp3>>
    /\ IsAbsent(Outcome(1))
    /\ all_lyrics = file_prefix \o <<"s", "/", "a", ".", "m", "p", "3", "\n", "\n">>
                        \o no_lyrics_found

\* Discovery, stated on the directory tree.
HasMp3Extension(path) ==
    LET name == path[Len(path)]
    IN  Len(name) > 4 /\ SubSeq(name, Len(name) - 3, Len(name)) = <<".", "m", "p", "3">>

Below(dir, path) == Len(path) > Len(dir) /\ SubSeq(path, 1, Len(dir)) = dir

\* the walk from dir can read the entry: the entry itself, and every directory
\* from dir down to the one that holds it
CanBeRead(dir, path) ==
    /\ fs[path].ok
    /\ \A k \in Len(dir)..(Len(path) - 1) : fs[SubSeq(path, 1, k)].ok

ExpectedFiles(dir, rec) ==
    {p \in DOMAIN fs :
        /\ Below(dir, p)
        /\ fs[p].kind = "file"
        /\ HasMp3Extension(p)
        /\ CanBeRead(dir, p)
        /\ rec \/ Len(p) = Len(dir) + 1}

Range(s) == {s[i] : i \in DOMAIN s}

\* C7: for a directory, find_mp3_files returns exactly the regular files with
\* extension mp3 (case-sensitive) that the walk can read, each once: the
\* immediate children without recursive, those of every descendant directory
\* with it; other files, directories and unreadable entries are not returned and
\* do not make the call fail.
C7_DirectoryDiscovery ==
    (pc = "returned" /\ input_path \in DOMAIN fs /\ fs[input_path].kind = "dir") =>
        /\ found.ok
        /\ Range(found.val) = ExpectedFiles(input_path, recursive)
        /\ Cardinality(Range(found.val)) = Len(found.val)

\* s/a.mp3 and s/s/a.mp3 below s: the recursive walk returns both
C7_Witness ==
    /\ pc = "returned"
    /\ input_path = <<sub>>
    /\ recursive
    /\ found.ok
    /\ Range(found.val) = {<<sub, a_mp3>>, <<sub, sub, a_mp3>>}

\* C8: for a path that is no directory, find_mp3_files returns the one path for
\* a regular file with extension mp3, fails NotAnMp3 for a regular file with any
\* other extension and PathNotFound for a path that does not exist, whatever
\* recursive.
C8_SingleFile ==
    (pc = "returned" /\ ~(input_path \in DOMAIN fs /\ fs[input_path].kind = "dir")) =>
        IF input_path \notin DOMAIN fs THEN found = Err("PathNotFound")
        ELSE IF HasMp3Extension(input_path) THEN found = Ok(<<input_path>>)
        ELSE found = Err("NotAnMp3")

\* a file named c.MP3, with recursive
C8_Witness ==
    /\ pc = "returned"
    /\ input_path = <<sub, c_MP3>>
    /\ fs[input_path].kind = "file"
    /\ recursive
    /\ found = Err("NotAnMp3")

\* The run, stated on its result, the tags read and the output file.
Fatal(kind) == exit = Err(kind)
EmptyDiscovery == found = Ok(<<>>)

\* C9: an empty discovery result is fatal in the default mode and only there: the
\* run ends NoFilesFound with no tag read and the output file untouched; the list
\* subcommand prints nothing then and ends successfully, and it never reads a
\* tag nor writes the output file.
C9_EmptyDiscovery ==
    /\ (command = "extract" /\ EmptyDiscovery) =>
          /\ Fatal("NoFilesFound")
          /\ pc = "done"
          /\ opened = <<>>
          /\ sink_calls = 0
          /\ dest = dest0
    /\ Fatal("NoFilesFound") => (command = "extract" /\ EmptyDiscovery)
    /\ command = "list" =>
          /\ opened = <<>>
          /\ sink_calls = 0
          /\ dest = dest0
          /\ EmptyDiscovery => (exit = Ok("unit") /\ stdout = <<>>)

\* the default mode on a directory without mp3 files, the output file existing
C9_Witness ==
    /\ command = "extract"
    /\ input_path = <<e_dir>>
    /\ EmptyDiscovery
    /\ Fatal("NoFilesFound")
    /\ dest = Existing(old)

SinkAfterBatch ==
    /\ sink_calls <= 1
    /\ sink_calls = 1 =>
          /\ agg_result = Ok(all_lyrics)
          /\ index = Len(mp3_files)
          /\ opened = mp3_files
          /\ mp3_files = found.val

Succeeded == command = "extract" /\ exit = Ok("unit")

\* C10 as stated: the Sink is invoked at most once and only after every file is
\* processed, a run that ends with a fatal error never leaves the output file
\* holding a part of the document, and a successful run leaves it holding
\* exactly the document.
C10_NoPartialOutput ==
    /\ SinkAfterBatch
    /\ (exit # Pending /\ ~exit.ok) =>
          ~(/\ dest.exists
            /\ sink_calls = 1
            /\ Len(dest.bytes) > 0
            /\ Len(dest.bytes) < Len(all_lyrics)
            /\ IsPrefix(dest.bytes, all_lyrics))
    /\ Succeeded => dest = Existing(all_lyrics)

\* C10 as the program has it: PathNotFound, NotAnMp3, NoFilesFound and
\* CreateFailed leave the output file as it was; WriteFailed leaves it holding
\* the bytes written before the error, a proper prefix of the document.
C10_FatalErrorsAndOutput ==
    /\ SinkAfterBatch
    /\ (Fatal("PathNotFound") \/ Fatal("NotAnMp3") \/ Fatal("NoFilesFound")
          \/ Fatal("CreateFailed")) => dest = dest0
    /\ Fatal("WriteFailed") =>
          /\ dest.exists
          /\ Len(dest.bytes) < Len(all_lyrics)
          /\ IsPrefix(dest.bytes, all_lyrics)
    /\ (exit # Pending /\ ~exit.ok) =>
          \E kind \in {"PathNotFound", "NotAnMp3", "NoFilesFound", "CreateFailed",
                       "WriteFailed"} : Fatal(kind)
    /\ Succeeded => dest = Existing(all_lyrics)

\* a write that fails after the first five bytes of a longer document, over an
\* output file that existed
C10_Witness ==
    /\ Fatal("WriteFailed")
    /\ dest0 = Existing(old)
    /\ dest = Existing(hello)
    /\ Len(all_lyrics) > Len(hello)

====
